---- MODULE Spec2Model ----
(***************************************************************************)
(* Model of webKM2.py: the read-status side file read_status.csv with its  *)
(* load / save / mark_read cycle, the load-merge of the article sheet, and *)
(* the Streamlit script's filter / pagination session state.               *)
(***************************************************************************)
EXTENDS Integers, Sequences, FiniteSets, TLC

VARIABLES
    file,       \* content of read_status.csv on disk
    writable,   \* whether read_status.csv can be created / written
    last,       \* the last store-level call and what it returned
    ss,         \* st.session_state of one browser session (widget values included)
    view        \* what the last completed script run rendered

vars == <<file, writable, last, ss, view>>

\* the value of F at the value of e (e is evaluated once)
Bind(e, F(_)) == CHOOSE y \in {F(x) : x \in {e}} : TRUE

(***************************************************************************)
(* Bounds of the model.                                                    *)
(***************************************************************************)
\* most records of an initial side file
MaxRows == 3
\* most rows of a frame a caller hands to save_read_db
MaxFrameRows == 2

(***************************************************************************)
(* Cell values.  A pandas cell is either a missing value (NaN / NaT) or a  *)
(* value; text cells carry strings, the Read column carries booleans.      *)
(***************************************************************************)
NaN == [isna |-> TRUE, str |-> ""]
Str(s) == [isna |-> FALSE, str |-> s]

\* pandas.read_csv's default na_values: a text cell holding one of these is
\* read as NaN, also under dtype=str (keep_default_na is left True).
NaTokens ==
    {"", "#N/A", "#N/A N/A", "#NA", "-1.#IND", "-1.#QNAN", "-NaN", "-nan",
     "1.#IND", "1.#QNAN", "<NA>", "N/A", "NA", "NULL", "NaN", "None", "n/a",
     "nan", "null"}

\* Series.astype(str): a missing value becomes the text "nan"
AsTypeStr(v) == IF v.isna THEN "nan" ELSE v.str

(***************************************************************************)
(* The side file.  Absent: no file.  Garbage: a file read_csv raises on    *)
(* (zero bytes, undecodable bytes, ragged lines).  Otherwise a CSV with a  *)
(* header and rows of text cells.                                          *)
(***************************************************************************)
READ_DB_Absent == [kind |-> "absent", cols |-> <<>>, rows |-> <<>>]
READ_DB_Garbage == [kind |-> "garbage", cols |-> <<>>, rows |-> <<>>]
Csv(cols, rows) == [kind |-> "csv", cols |-> cols, rows |-> rows]

Range(s) == {s[i] : i \in 1..Len(s)}
HasCol(df, c) == c \in Range(df.cols)

\* A DataFrame: column names and rows (records column -> cell value)
DataFrame(cols, rows) == [cols |-> cols, rows |-> rows]

\* pd.DataFrame({"ItemKey": [], "Read": []})
EmptyReadFrame == DataFrame(<<"ItemKey", "Read">>, <<>>)

ParseCell(c, text) ==
    IF c = "Read" THEN (text = "True")
    ELSE IF text \in NaTokens THEN NaN ELSE Str(text)

FormatCell(c, v) ==
    IF c = "Read" THEN (IF v THEN "True" ELSE "False")
    ELSE IF v.isna THEN "" ELSE v.str

\* pd.read_csv(READ_DB, dtype={"ItemKey": str}) on a parseable file
ReadCsv(f) ==
    DataFrame(f.cols,
              [i \in 1..Len(f.rows) |->
                  [c \in Range(f.cols) |-> ParseCell(c, f.rows[i][c])]])

\* DataFrame.to_csv(READ_DB, index=False)
ToCsv(df) ==
    Csv(df.cols,
        [i \in 1..Len(df.rows) |->
            [c \in Range(df.cols) |-> FormatCell(c, df.rows[i][c])]])

\* the subsequence of rows at the positions in keep, in order
KeepRows(rows, keep) ==
    Bind(<<rows, keep>>, LAMBDA a :
        [n \in 1..Cardinality(a[2]) |->
            a[1][CHOOSE i \in a[2] : Cardinality({h \in a[2] : h < i}) = n - 1]])

NoDedup(df) == df

\* drop_duplicates(subset=["ItemKey"], keep="first")
DedupKeepFirst(df) ==
    Bind(df, LAMBDA d :
        IF HasCol(d, "ItemKey")
        THEN DataFrame(d.cols,
                KeepRows(d.rows,
                    {i \in 1..Len(d.rows) :
                        \A j \in 1..(i - 1) : d.rows[j].ItemKey # d.rows[i].ItemKey}))
        ELSE d)

\* _dedup_by_itemkey: drop_duplicates(subset=["ItemKey"], keep="last")
dedup_by_itemkey(df) ==
    Bind(df, LAMBDA d :
        IF HasCol(d, "ItemKey")
        THEN DataFrame(d.cols,
                KeepRows(d.rows,
                    {i \in 1..Len(d.rows) :
                        \A j \in (i + 1)..Len(d.rows) : d.rows[j].ItemKey # d.rows[i].ItemKey}))
        ELSE d)

\* db["Read"] = False when the column is missing
WithReadColumn(df) ==
    IF HasCol(df, "Read") THEN df
    ELSE DataFrame(Append(df.cols, "Read"),
            [i \in 1..Len(df.rows) |->
                [c \in Range(df.cols) \cup {"Read"} |->
                    IF c = "Read" THEN FALSE ELSE df.rows[i][c]]])

(***************************************************************************)
(* Results of the store functions: whether the call raised, the frame it   *)
(* returned, and the file it left behind.                                  *)
(***************************************************************************)
NoFrame == DataFrame(<<>>, <<>>)
Outcome(raised, db, f) == [raised |-> raised, db |-> db, file |-> f]

\* ensure_read_db
ensure_read_db(f, w) ==
    IF f.kind = "absent"
    THEN IF w THEN Outcome(FALSE, NoFrame, ToCsv(EmptyReadFrame))
         ELSE Outcome(TRUE, NoFrame, f)
    ELSE Outcome(FALSE, NoFrame, f)

\* load_read_db
load_read_db(f, w) ==
    Bind(ensure_read_db(f, w), LAMBDA e :
        IF e.raised THEN e
        ELSE IF e.file.kind = "garbage"
             THEN IF w THEN Outcome(FALSE, EmptyReadFrame, ToCsv(EmptyReadFrame))
                  ELSE Outcome(TRUE, NoFrame, e.file)
             ELSE Outcome(FALSE, dedup_by_itemkey(WithReadColumn(ReadCsv(e.file))), e.file))

\* saves only the records marked read
SaveOnlyRead(db, f, w) ==
    IF w THEN Outcome(FALSE, NoFrame,
                ToCsv(DataFrame(db.cols,
                    KeepRows(db.rows, {i \in 1..Len(db.rows) : db.rows[i].Read}))))
    ELSE Outcome(TRUE, NoFrame, f)

\* save_read_db
save_read_db(db, f, w) ==
    IF w THEN Outcome(FALSE, NoFrame, ToCsv(dedup_by_itemkey(db)))
    ELSE Outcome(TRUE, NoFrame, f)

\* the upsert of mark_read on a loaded frame that has the ItemKey column
Upsert(db, item_key, read_state) ==
    IF \E i \in 1..Len(db.rows) : db.rows[i].ItemKey = Str(item_key)
    THEN DataFrame(db.cols,
            [i \in 1..Len(db.rows) |->
                IF db.rows[i].ItemKey = Str(item_key)
                THEN [db.rows[i] EXCEPT !.Read = read_state]
                ELSE db.rows[i]])
    ELSE DataFrame(db.cols,
            Append(db.rows, [ItemKey |-> Str(item_key), Read |-> read_state]))

\* the mapping identifier -> Read a frame stands for
Mapping(db) == {<<db.rows[i].ItemKey, db.rows[i].Read>> : i \in 1..Len(db.rows)}

\* the frame load_read_db() returns in the current state
LoadedNow == load_read_db(file, writable).db

\* mark_read
mark_read(item_key, read_state, f, w) ==
    Bind(load_read_db(f, w), LAMBDA l :
        IF l.raised THEN l
        ELSE IF ~HasCol(l.db, "ItemKey") THEN Outcome(TRUE, NoFrame, l.file)
        ELSE Bind(Upsert(l.db, item_key, read_state), LAMBDA db :
                save_read_db(db, l.file, w)))

(***************************************************************************)
(* The article sheet ('Medium digest (classified).xlsx') the model loads:  *)
(* a fixed sheet of 13 rows.  Text is a tuple of characters.  Row 13 has   *)
(* an empty URL cell; rows 2, 7 and 13 have an empty Subtitle cell; rows 5 *)
(* and 11 have a Date that to_datetime coerces to NaT.                     *)
(***************************************************************************)
CatLLM == "Large Language Models (LLM)"
CatCV == "Computer Vision (CV)"
CatTech == "Non-AI Technology/Science"

NoText == [isna |-> TRUE, txt |-> <<>>]
Text(t) == [isna |-> FALSE, txt |-> t]
NaT == [isna |-> TRUE, day |-> 0]
Day(d) == [isna |-> FALSE, day |-> d]

Article(url, title, subtitle, date, cat) ==
    [URL |-> url, Title |-> title, Subtitle |-> subtitle, Date |-> date, Category |-> cat]

Articles ==
    << Article(Str("u1"), <<"L","L","M">>, Text(<<"a","b">>), Day(7), CatLLM),
       Article(Str("u2"), <<"l","l","m","s">>, NoText, Day(12), CatLLM),
       Article(Str("u3"), <<"a","L","l","m">>, Text(<<"g","p","u">>), Day(3), CatLLM),
       Article(Str("u4"), <<"g","p","t">>, Text(<<"L","L","M">>), Day(10), CatLLM),
       Article(Str("u5"), <<"l","L","M">>, Text(<<"b">>), NaT, CatLLM),
       Article(Str("u6"), <<"L","l","m","a">>, Text(<<"c","v">>), Day(1), CatLLM),
       Article(Str("u7"), <<"L","L","M","b">>, NoText, Day(9), CatLLM),
       Article(Str("u8"), <<"b","l","l","m">>, Text(<<"a">>), Day(5), CatLLM),
       Article(Str("u9"), <<"a","b">>, Text(<<"l","l","m">>), Day(11), CatLLM),
       Article(Str("u10"), <<"c","v">>, Text(<<"g","p","u">>), Day(8), CatCV),
       Article(Str("u11"), <<"c","v","a">>, Text(<<"b">>), NaT, CatCV),
       Article(Str("u12"), <<"g","p","u">>, Text(<<"a","b">>), Day(4), CatTech),
       Article(NaN, <<"g","p","u","s">>, NoText, Day(6), CatTech) >>

\* the outcomes of pd.read_excel and the required-column check
Sources == {"ok", "missing_column", "unreadable"}

\* what load_data returns: None, or the merged frame (one record per row:
\* the sheet row it comes from, its ItemKey and its Read flag)
None == [none |-> TRUE, rows |-> <<>>]
Loaded(rows) == [none |-> FALSE, rows |-> rows]

\* the merge with unmatched rows defaulting to read
MergeReadDefaultTrue(read_db) ==
    [i \in 1..Len(Articles) |->
        LET key == AsTypeStr(Articles[i].URL)
        IN  [row |-> i, ItemKey |-> key,
             Read |-> \A j \in 1..Len(read_db.rows) :
                        read_db.rows[j].ItemKey = Str(key) => read_db.rows[j].Read]]

\* the merged rows of sheet row i: one per record of the store frame with
\* the row's ItemKey, in the frame's order, or one unmatched row whose Read
\* is NaN and becomes False by fillna(False).astype(bool)
MergedRowsOf(i, right) ==
    Bind(SelectSeq(right, LAMBDA r : r.ItemKey = Str(AsTypeStr(Articles[i].URL))),
         LAMBDA hits :
            IF hits = <<>>
            THEN << [row |-> i, ItemKey |-> AsTypeStr(Articles[i].URL), Read |-> FALSE] >>
            ELSE [n \in 1..Len(hits) |->
                    [row |-> i, ItemKey |-> AsTypeStr(Articles[i].URL), Read |-> hits[n].Read]])

\* df.merge(read_db, how="left", on="ItemKey") and
\* df["Read"].fillna(False).astype(bool), for a read_db that has ItemKey
MergeRead(read_db) ==
    Bind(read_db.rows, LAMBDA right :
        LET merged[i \in 0..Len(Articles)] ==
                IF i = 0 THEN <<>> ELSE merged[i - 1] \o MergedRowsOf(i, right)
        IN  merged[Len(Articles)])

LoadResult(data, f) == [data |-> data, file |-> f]

\* load_data: anything raised inside is caught and None is returned
load_data(source, f, w) ==
    IF source # "ok" THEN LoadResult(None, f)
    ELSE Bind(load_read_db(f, w), LAMBDA l :
            IF l.raised THEN LoadResult(None, l.file)
            ELSE IF ~HasCol(l.db, "ItemKey") THEN LoadResult(None, l.file)
            ELSE LoadResult(Loaded(MergeRead(l.db)), l.file))

(***************************************************************************)
(* Store-level specification: the functions of the read-status store and   *)
(* load_data called in any order on any initial side file.                 *)
(***************************************************************************)
\* identifiers the store functions are called with: the ItemKeys of sheet
\* rows 1 and 13 ("u1" and, for the empty URL cell, "nan")
StoreKeys == {AsTypeStr(Articles[i].URL) : i \in {1, Len(Articles)}}

RECURSIVE SeqsUpTo(_, _)
SeqsUpTo(S, n) ==
    IF n = 0 THEN {<<>>}
    ELSE LET shorter == SeqsUpTo(S, n - 1)
         IN  shorter \cup {Append(q, x) : q \in {t \in shorter : Len(t) = n - 1}, x \in S}

\* frames a caller may hand to save_read_db
Frames ==
    {DataFrame(<<"ItemKey", "Read">>, rows) :
        rows \in SeqsUpTo([ItemKey : {Str(k) : k \in StoreKeys}, Read : BOOLEAN], MaxFrameRows)}

\* side files the store functions may find
InitFiles ==
    {READ_DB_Absent, READ_DB_Garbage}
    \cup {Csv(<<"ItemKey", "Read">>, rows) :
            rows \in SeqsUpTo([ItemKey : StoreKeys, Read : {"True", "False"}], MaxRows)}
    \cup {Csv(<<"ItemKey">>, rows) : rows \in SeqsUpTo([ItemKey : StoreKeys], MaxRows)}
    \cup {Csv(<<"URL", "Read">>, rows) :
            rows \in SeqsUpTo([URL : StoreKeys, Read : {"True", "False"}], MaxRows)}

Call(op, key, read, raised, db, data) ==
    [op |-> op, key |-> key, read |-> read, raised |-> raised, db |-> db, data |-> data]

NoCall == Call("none", "", FALSE, FALSE, NoFrame, None)
NoSession == [run |-> FALSE]
NoView == [run |-> FALSE]

Init ==
    /\ file \in InitFiles
    /\ writable \in BOOLEAN
    /\ last = NoCall
    /\ ss = NoSession
    /\ view = NoView

\* the side file is absent or holds no record
InitClean ==
    /\ file \in {READ_DB_Absent, ToCsv(EmptyReadFrame)}
    /\ writable \in BOOLEAN
    /\ last = NoCall
    /\ ss = NoSession
    /\ view = NoView

EnsureReadDb ==
    LET out == ensure_read_db(file, writable) IN
    /\ file' = out.file
    /\ last' = Call("ensure_read_db", "", FALSE, out.raised, NoFrame, None)
    /\ UNCHANGED <<writable, ss, view>>

LoadReadDb ==
    LET out == load_read_db(file, writable) IN
    /\ file' = out.file
    /\ last' = Call("load_read_db", "", FALSE, out.raised, out.db, None)
    /\ UNCHANGED <<writable, ss, view>>

\* save_read_db(db), db a frame of the caller's
SaveReadDb ==
    \E db \in Frames :
        LET out == save_read_db(db, file, writable) IN
        /\ file' = out.file
        /\ last' = Call("save_read_db", "frame", FALSE, out.raised, NoFrame, None)
        /\ UNCHANGED <<writable, ss, view>>

\* save_read_db(db), db the frame load_read_db() has just returned
SaveLoadedDb ==
    /\ last.op = "load_read_db"
    /\ ~last.raised
    /\ LET out == save_read_db(last.db, file, writable) IN
        /\ file' = out.file
        /\ last' = Call("save_read_db", "loaded", FALSE, out.raised, NoFrame, None)
    /\ UNCHANGED <<writable, ss, view>>

MarkRead ==
    \E item_key \in StoreKeys, read_state \in BOOLEAN :
        LET out == mark_read(item_key, read_state, file, writable) IN
        /\ file' = out.file
        /\ last' = Call("mark_read", item_key, read_state, out.raised, NoFrame, None)
        /\ UNCHANGED <<writable, ss, view>>

LoadData ==
    \E source \in Sources :
        LET out == load_data(source, file, writable) IN
        /\ file' = out.file
        /\ last' = Call("load_data", source, FALSE, FALSE, NoFrame, out.data)
        /\ UNCHANGED <<writable, ss, view>>

Next ==
    \/ EnsureReadDb
    \/ LoadReadDb
    \/ SaveReadDb
    \/ SaveLoadedDb
    \/ MarkRead
    \/ LoadData

Spec == Init /\ [][Next]_vars

SpecClean == InitClean /\ [][Next]_vars

(***************************************************************************)
(* The Streamlit script.  Every interaction reruns the script top to       *)
(* bottom against st.session_state; st.rerun() abandons the run and starts *)
(* the script again.                                                       *)
(***************************************************************************)
ai_categories ==
    << "Agentic AI & AI Agents",
       "Retrieval-Augmented Generation (RAG)",
       "Multimodal AI (Vision/Audio/Video + Language)",
       "Prompt Engineering & In-Context Learning",
       "Fine-tuning & Embeddings",
       "Large Language Models (LLM)",
       "Natural Language Processing (non-LLM)",
       "Computer Vision (CV)",
       "Speech & Audio AI",
       "Deep Learning (non-LLM)",
       "Machine Learning (Classical)",
       "AI Algorithm",
       "AI Evaluation & Metrics",
       "AI Infrastructure, MLOps & Frameworks",
       "AI Applications (Business/Dev/Productivity)",
       "AI Policy, Governance & Safety" >>

\* the labels f"Non-AI {display_label}" of non_ai_display_categories
non_ai_categories ==
    << "Non-AI Data Science & Statistics",
       "Non-AI Software Engineering & Programming",
       "Non-AI Technology/Science",
       "Non-AI Finance/Economics/Business",
       "Non-AI Society/Culture/Other" >>

items_per_page == 8

\* the sheet rows whose read / unread button the user presses
ToggleRows == {5, 13}

\* values of the search box the user types
SearchTerms == { <<>>, <<"L","L","m">>, <<"a","n">> }

UpperCase == <<"A","B","C","D","E","F","G","H","I","J","K","L","M",
               "N","O","P","Q","R","S","T","U","V","W","X","Y","Z">>
LowerCase == <<"a","b","c","d","e","f","g","h","i","j","k","l","m",
               "n","o","p","q","r","s","t","u","v","w","x","y","z">>

\* case folding of one character
Lower(c) ==
    IF \E i \in 1..Len(UpperCase) : UpperCase[i] = c
    THEN LowerCase[CHOOSE i \in 1..Len(UpperCase) : UpperCase[i] = c]
    ELSE c

\* Series.astype(str) on a text cell: a missing value becomes the text "nan"
TextAsStr(v) == IF v.isna THEN <<"n","a","n">> ELSE v.txt

\* str.contains(term, case=False) for a term without regex metacharacters
Contains(text, term) ==
    \E i \in 0..(Len(text) - Len(term)) :
        \A j \in 1..Len(term) : Lower(text[i + j]) = Lower(term[j])

\* an optional session_state entry: <<>> when the key is absent
Get(opt, default) == IF opt = <<>> THEN default ELSE opt[1]

\* option labels of the status radio: the kind and the count in the label
StatusLabel(kind, count) == [kind |-> kind, count |-> count]

Min(a, b) == IF a < b THEN a ELSE b
Max(a, b) == IF a > b THEN a ELSE b

\* whether sheet row a comes before sheet row b under
\* sort_values('Date', ascending=False): later dates first, NaT last
DateBefore(a, b) ==
    /\ ~Articles[a].Date.isna
    /\ (Articles[b].Date.isna \/ Articles[a].Date.day > Articles[b].Date.day)

\* for each sheet row, how many sheet rows the Date order puts before it
DateRank == [i \in 1..Len(Articles) |-> Cardinality({j \in 1..Len(Articles) : DateBefore(j, i)})]

SortValuesAscending(rows) ==
    Bind(rows, LAMBDA d :
    Bind([i \in 1..Len(d) |->
            Cardinality({j \in 1..Len(d) :
                \/ DateRank[d[j].row] > DateRank[d[i].row]
                \/ (DateRank[d[j].row] = DateRank[d[i].row] /\ j < i)})],
         LAMBDA before :
            [n \in 1..Len(d) |-> d[CHOOSE i \in 1..Len(d) : before[i] = n - 1]]))

\* filtered_df.sort_values('Date', ascending=False); rows the Date order
\* does not separate keep their order
SortValues(rows) ==
    Bind(rows, LAMBDA d :
    Bind([i \in 1..Len(d) |->
            Cardinality({j \in 1..Len(d) :
                \/ DateRank[d[j].row] < DateRank[d[i].row]
                \/ (DateRank[d[j].row] = DateRank[d[i].row] /\ j < i)})],
         LAMBDA before :
            [n \in 1..Len(d) |-> d[CHOOSE i \in 1..Len(d) : before[i] = n - 1]]))

\* for each search term, the sheet rows whose Title or Subtitle contains it
SearchMask ==
    [t \in SearchTerms |->
        {i \in 1..Len(Articles) :
            \/ Contains(Articles[i].Title, t)
            \/ Contains(TextAsStr(Articles[i].Subtitle), t)}]

\* set(df['Category (20-class)'].unique())
unique_cats == {Articles[i].Category : i \in 1..Len(Articles)}

\* the labels of each group that have a checkbox: those present in the data
ai_present == Range(ai_categories) \cap unique_cats
non_ai_present == Range(non_ai_categories) \cap unique_cats

\* total_pages = (len(df) + items_per_page - 1) // items_per_page
TotalPagesFloor(n) == n \div items_per_page

TotalPages(n) == (n + items_per_page - 1) \div items_per_page

\* a session before the script has run: no keys, widgets at their defaults
EmptySession ==
    [page |-> <<>>, last_search |-> <<>>, last_selected |-> <<>>, last_status |-> <<>>,
     ai_all_prev |-> FALSE, nonai_all_prev |-> FALSE,
     status_options |-> <<>>, status_filter |-> 0,
     ai_all |-> FALSE, nonai_all |-> FALSE,
     chk |-> [c \in ai_present \cup non_ai_present |-> FALSE],
     search_main |-> <<>>]

NoClick == [kind |-> "none", key |-> ""]
Click(kind, key) == [kind |-> kind, key |-> key]

\* what a run leaves on screen: whether the listing area was reached, the
\* number of results, the page shown and its rows, whether the previous /
\* next buttons are there; page_before is session_state.page as it was when
\* the interaction began; result is the whole frame handed to the listing
Rendered(listing, result, total, page, rows, pager) ==
    [listing |-> listing, count |-> Len(result), result |-> result, total_pages |-> total,
     page |-> page, rows |-> rows, pager |-> pager, page_before |-> 0]

RunResult(s, f, v, rerun) == [ss |-> s, file |-> f, view |-> v, rerun |-> rerun]

\* display_paginated_articles(df) with the session as the sidebar code left it
display_paginated_articles(s, f, w, df, click) ==
    IF df = <<>> THEN RunResult(s, f, Rendered(TRUE, <<>>, 0, Get(s.page, 0), <<>>, FALSE), FALSE)
    ELSE
    Bind(TotalPages(Len(df)), LAMBDA total_pages :
    Bind(Min(Get(s.page, 0), Max(total_pages - 1, 0)), LAMBDA page :
    Bind(SubSeq(df, page * items_per_page + 1,
                Min(page * items_per_page + items_per_page, Len(df))), LAMBDA page_df :
    Bind(Rendered(TRUE, df, total_pages, page, page_df, TRUE), LAMBDA shown :
        IF click.kind = "toggle" /\ \E i \in 1..Len(page_df) : page_df[i].ItemKey = click.key
        THEN Bind(page_df[CHOOSE i \in 1..Len(page_df) : page_df[i].ItemKey = click.key],
                  LAMBDA r :
             Bind(mark_read(r.ItemKey, ~r.Read, f, w), LAMBDA m :
                RunResult([s EXCEPT !.page = <<page>>], m.file, shown, ~m.raised)))
        ELSE IF click.kind = "prev" /\ page > 0
        THEN RunResult([s EXCEPT !.page = <<page - 1>>], f, shown, TRUE)
        ELSE IF click.kind = "next" /\ page < total_pages - 1
        THEN RunResult([s EXCEPT !.page = <<page + 1>>], f, shown, TRUE)
        ELSE RunResult([s EXCEPT !.page = <<page>>], f, shown, FALSE)))))

ApplySelectAllEveryGroup(chk, present, select_all, prev_all) ==
    IF select_all # prev_all
    THEN Bind(chk, LAMBDA old : [c \in DOMAIN old |-> select_all])
    ELSE chk

\* the select-all block of one group: when the group's checkbox differs from
\* the value seen in the previous run, every category of the group present
\* in the data is set to it
ApplySelectAll(chk, present, select_all, prev_all) ==
    IF select_all # prev_all
    THEN Bind(chk, LAMBDA old : [c \in DOMAIN old |-> IF c \in present THEN select_all ELSE old[c]])
    ELSE chk

NoReset(page, last_seen, value) == page

\* page := 0 and last := value when the value differs from the one last seen
ResetOnChange(page, last_seen, value) == IF last_seen # <<value>> THEN <<0>> ELSE page

ResetPageNotOnStatus(page, s, search_term, selected_labels, status_choice) ==
    ResetOnChange(
        ResetOnChange(page, s.last_search, search_term),
        s.last_selected, selected_labels)

\* the three reset checks on search, selection and status, in script order
ResetPage(page, s, search_term, selected_labels, status_choice) ==
    ResetOnChange(
        ResetOnChange(
            ResetOnChange(page, s.last_search, search_term),
            s.last_selected, selected_labels),
        s.last_status, status_choice)

FilterStatusOnly(df, selected_labels, status_choice) ==
    IF status_choice.kind = "unread" THEN SelectSeq(df, LAMBDA r : ~r.Read)
    ELSE IF status_choice.kind = "read" THEN SelectSeq(df, LAMBDA r : r.Read)
    ELSE df

\* the rows kept by the category and status filters
FilterCategoryStatus(df, selected_labels, status_choice) ==
    LET by_cat == IF selected_labels # {}
                  THEN SelectSeq(df, LAMBDA r : Articles[r.row].Category \in selected_labels)
                  ELSE df
    IN  IF status_choice.kind = "unread" THEN SelectSeq(by_cat, LAMBDA r : ~r.Read)
        ELSE IF status_choice.kind = "read" THEN SelectSeq(by_cat, LAMBDA r : r.Read)
        ELSE by_cat

\* filtered_df[mask]: the rows whose Title or Subtitle contains the term
SearchRows(df, search_term) ==
    SelectSeq(df, LAMBDA r : r.row \in SearchMask[search_term])

\* the option labels of the status radio, with the live counts
StatusOptions(df) ==
    << StatusLabel("all", Len(df)),
       StatusLabel("unread", Cardinality({i \in 1..Len(df) : ~df[i].Read})),
       StatusLabel("read", Cardinality({i \in 1..Len(df) : df[i].Read})) >>

\* the category checkboxes after both select-all blocks
Checkboxes(s) ==
    ApplySelectAll(
        ApplySelectAll(s.chk, ai_present, s.ai_all, s.ai_all_prev),
        non_ai_present, s.nonai_all, s.nonai_all_prev)

\* One run of the script.  s: session_state with the widget values the
\* browser sent; click: the button pressed, if any; keep_index: whether the
\* status radio keeps its index when its option labels have changed (it
\* falls back to index 0 otherwise).
ScriptRun(s, f, w, click, keep_index) ==
    Bind(load_data("ok", f, w), LAMBDA ld :
    IF ld.data.none
    THEN RunResult(s, ld.file, Rendered(FALSE, <<>>, 0, Get(s.page, 0), <<>>, FALSE), FALSE)
    ELSE
    Bind(ld.data.rows, LAMBDA df :
    Bind(StatusOptions(df), LAMBDA status_options :
    Bind(IF status_options = s.status_options \/ keep_index THEN s.status_filter ELSE 0,
         LAMBDA status_index :
    Bind(status_options[status_index + 1], LAMBDA status_choice :
    Bind(Checkboxes(s), LAMBDA chk :
    Bind({c \in ai_present \cup non_ai_present : chk[c]},
         LAMBDA selected_labels :
    Bind([s EXCEPT !.status_options = status_options,
                   !.status_filter = status_index,
                   !.chk = chk,
                   !.ai_all_prev = s.ai_all,
                   !.nonai_all_prev = s.nonai_all,
                   !.page = ResetPage(IF s.page = <<>> THEN <<0>> ELSE s.page,
                                      s, s.search_main, selected_labels, status_choice),
                   !.last_search = <<s.search_main>>,
                   !.last_selected = <<selected_labels>>,
                   !.last_status = <<status_choice>>],
         LAMBDA s1 :
    Bind(SortValues(FilterCategoryStatus(df, selected_labels, status_choice)),
         LAMBDA filtered_df :
        IF s.search_main # <<>>
        THEN Bind(SearchRows(filtered_df, s.search_main), LAMBDA search_df :
                IF search_df # <<>>
                THEN display_paginated_articles(s1, ld.file, w, search_df, click)
                ELSE RunResult(s1, ld.file,
                               Rendered(TRUE, <<>>, 0, Get(s1.page, 0), <<>>, FALSE), FALSE))
        ELSE display_paginated_articles(s1, ld.file, w, filtered_df, click))))))))))

\* an interaction: the script run it triggers and, after st.rerun(), the next run
Interaction(s, f, w, click, keep_index) ==
    Bind(s, LAMBDA s0 :
    Bind(ScriptRun(s0, f, w, click, keep_index), LAMBDA first :
    Bind(IF first.rerun THEN ScriptRun(first.ss, first.file, w, NoClick, keep_index)
         ELSE first, LAMBDA final :
        [final EXCEPT !.view.page_before = Get(s0.page, 0)])))

(***************************************************************************)
(* Session specification: one browser session on a side file that starts  *)
(* absent or empty.                                                        *)
(***************************************************************************)
InitUI ==
    /\ writable = TRUE
    /\ last = NoCall
    /\ \E f \in {READ_DB_Absent, ToCsv(EmptyReadFrame)} :
          \E r \in {Interaction(EmptySession, f, TRUE, NoClick, TRUE)} :
              /\ file = r.file
              /\ ss = r.ss
              /\ view = r.view

Step(s, click, keep_index) ==
    \E r \in {Interaction(s, file, writable, click, keep_index)} :
        /\ file' = r.file
        /\ ss' = r.ss
        /\ view' = r.view
        /\ UNCHANGED <<writable, last>>

\* the user picks another option of the status radio
SetStatus ==
    /\ view.listing
    /\ \E i \in 0..2 : i # ss.status_filter /\ Step([ss EXCEPT !.status_filter = i], NoClick, TRUE)

\* the user ticks or unticks one category checkbox
ToggleCategory ==
    /\ view.listing
    /\ \E c \in ai_present \cup non_ai_present :
          Step([ss EXCEPT !.chk[c] = ~ss.chk[c]], NoClick, TRUE)

\* the user ticks or unticks the AI select-all checkbox
ToggleAiAll ==
    /\ view.listing
    /\ Step([ss EXCEPT !.ai_all = ~ss.ai_all], NoClick, TRUE)

\* the user ticks or unticks the non-AI select-all checkbox
ToggleNonAiAll ==
    /\ view.listing
    /\ Step([ss EXCEPT !.nonai_all = ~ss.nonai_all], NoClick, TRUE)

\* the user changes the search box
SetSearch ==
    /\ view.listing
    /\ \E term \in SearchTerms : term # ss.search_main /\ Step([ss EXCEPT !.search_main = term], NoClick, TRUE)

ClickPrevious ==
    /\ view.pager
    /\ Step(ss, Click("prev", ""), TRUE)

ClickNext ==
    /\ view.pager
    /\ Step(ss, Click("next", ""), TRUE)

\* the user presses the read / unread button of an article on the page; the
\* counts in the radio's labels change, and the radio keeps its index or not
ClickToggleRead ==
    \E i \in 1..Len(view.rows), keep_index \in BOOLEAN :
        /\ view.rows[i].row \in ToggleRows
        /\ Step(ss, Click("toggle", view.rows[i].ItemKey), keep_index)

NextUI ==
    \/ SetStatus
    \/ ToggleCategory
    \/ ToggleAiAll
    \/ ToggleNonAiAll
    \/ SetSearch
    \/ ClickPrevious
    \/ ClickNext
    \/ ClickToggleRead

SpecUI == InitUI /\ [][NextUI]_vars


(***************************************************************************)
(* Two sessions on one side file.  Each runs mark_read(key, True) step by  *)
(* step, without locking: load_read_db's read of the file; to_csv's open,  *)
(* which truncates the file; to_csv's write and close, which puts the      *)
(* buffered text at the start of the file as it is then.  Every record     *)
(* here is 'uN,True', so records have one length in bytes and the text     *)
(* past the end of a shorter write is whole records.                       *)
(***************************************************************************)
Sessions == {"A", "B"}

\* identifiers the two sessions mark: the ItemKeys of sheet rows 1 and 5
RaceKeys == {AsTypeStr(Articles[i].URL) : i \in {1, 5}}

\* a file open(path, 'w') has truncated and nothing is written to yet
ZeroBytes == READ_DB_Garbage

\* side files the sessions start on: well-formed, one record per identifier
RaceInitFiles ==
    {Csv(<<"ItemKey", "Read">>, rows) :
        rows \in {q \in SeqsUpTo([ItemKey : RaceKeys, Read : {"True"}], Cardinality(RaceKeys)) :
                    \A i, j \in 1..Len(q) : q[i].ItemKey = q[j].ItemKey => i = j}}

Idle == [pc |-> "idle", key |-> "", db |-> NoFrame]
Running(pc, key, db) == [pc |-> pc, key |-> key, db |-> db]

\* what the last read of the file by load_read_db found
Observed(op, who, raised, f) == [op |-> op, who |-> who, raised |-> raised, seen |-> f]

\* what the last completed to_csv wrote
Written(done, text) == [saved |-> done, text |-> text]

\* the file after a handle opened with 'w' writes text at offset 0 and closes
WriteAtStart(f, text) ==
    IF f.kind = "csv" /\ f.cols = text.cols /\ Len(f.rows) > Len(text.rows)
    THEN Csv(text.cols, text.rows \o SubSeq(f.rows, Len(text.rows) + 1, Len(f.rows)))
    ELSE text

InitRace ==
    /\ file \in RaceInitFiles
    /\ writable = TRUE
    /\ last = Observed("none", "", FALSE, file)
    /\ ss = [p \in Sessions |-> Idle]
    /\ view = Written(FALSE, file)

\* a session calls mark_read(key, True)
RaceCall(p) ==
    /\ ss[p].pc = "idle"
    /\ \E key \in RaceKeys : ss' = [ss EXCEPT ![p] = Running("read", key, NoFrame)]
    /\ UNCHANGED <<file, writable, last, view>>

\* load_read_db: pd.read_csv reads the file; when it raises, the except
\* branch goes on to save an empty store
RaceRead(p) ==
    /\ ss[p].pc = "read"
    /\ last' = Observed("load_read_db", p, file.kind # "csv", file)
    /\ IF file.kind # "csv"
       THEN ss' = [ss EXCEPT ![p] = Running("reset_open", ss[p].key, EmptyReadFrame)]
       ELSE \E db \in {dedup_by_itemkey(WithReadColumn(ReadCsv(file)))} :
               ss' = [ss EXCEPT ![p] = Running("open", ss[p].key, Upsert(db, ss[p].key, TRUE))]
    /\ UNCHANGED <<file, writable, view>>

\* save_read_db: to_csv opens the file for writing, which empties it
RaceOpen(p) ==
    /\ ss[p].pc \in {"open", "reset_open"}
    /\ file' = ZeroBytes
    /\ ss' = [ss EXCEPT ![p].pc = IF ss[p].pc = "open" THEN "write" ELSE "reset_write"]
    /\ UNCHANGED <<writable, last, view>>

\* save_read_db: to_csv writes the frame and closes the file; after the
\* reset of load_read_db, mark_read goes on with the empty frame
RaceWrite(p) ==
    /\ ss[p].pc \in {"write", "reset_write"}
    /\ \E text \in {save_read_db(ss[p].db, file, writable).file} :
          /\ file' = WriteAtStart(file, text)
          /\ view' = Written(TRUE, text)
    /\ IF ss[p].pc = "reset_write"
       THEN ss' = [ss EXCEPT ![p] = Running("open", ss[p].key, Upsert(EmptyReadFrame, ss[p].key, TRUE))]
       ELSE ss' = [ss EXCEPT ![p] = Idle]
    /\ UNCHANGED <<writable, last>>

NextRace ==
    \E p \in Sessions :
        \/ RaceCall(p)
        \/ RaceRead(p)
        \/ RaceOpen(p)
        \/ RaceWrite(p)

SpecRace == InitRace /\ [][NextRace]_vars

(***************************************************************************)
(* Claims about the read-status store.                                     *)
(***************************************************************************)
\* C1: after mark_read(id, true) has returned, load_read_db() returns a
\* mapping that holds id with Read = true (whatever calls came before).
C1_MarkReadThenLoad ==
    (last.op = "mark_read" /\ last.read /\ ~last.raised)
        => <<Str(last.key), TRUE>> \in Mapping(LoadedNow)

\* C2: after load_data has merged the sheet with the store, an item's Read
\* flag is true exactly when the store's deduplicated record for the item's
\* identifier says Read = true, and false when there is no such record.
C2_MergeMatchesStore ==
    (last.op = "load_data" /\ ~last.data.none)
        => \A n \in 1..Len(last.data.rows) :
              last.data.rows[n].Read
                  = (<<Str(last.data.rows[n].ItemKey), TRUE>> \in Mapping(LoadedNow))

C2_Witness ==
    /\ last.op = "load_data"
    /\ ~last.data.none
    /\ \E n, m \in 1..Len(last.data.rows) :
          last.data.rows[n].Read /\ ~last.data.rows[m].Read
    /\ Len(file.rows) > Len(LoadedNow.rows)

\* a side file that is unreadable or does not have the store's layout
Malformed(f) == f.kind = "garbage" \/ (f.kind = "csv" /\ ~HasCol(f, "ItemKey"))

\* C3: load_read_db() on an unreadable or malformed side file (that can be
\* written) does not raise, leaves an empty store behind, returns an empty
\* mapping, and a following mark_read works.
C3_LoadHealsMalformed ==
    [][(Malformed(file) /\ writable /\ last'.op = "load_read_db")
          => /\ ~last'.raised
             /\ file' = ToCsv(EmptyReadFrame)
             /\ last'.db = EmptyReadFrame
             /\ \A k \in StoreKeys : ~mark_read(k, TRUE, file', writable').raised]_vars

\* C4: whatever the state of the side file, load_data on a valid sheet
\* returns the listing, never None.
C4_SideStoreNeverBlocks ==
    (last.op = "load_data" /\ last.key = "ok") => ~last.data.none

\* C5: when the side file holds several records for one identifier,
\* load_read_db() returns exactly one entry for it, with the Read value of
\* the last such record; the same holds for every other identifier.
C5_DedupKeepsLast ==
    (last.op = "load_read_db" /\ ~last.raised /\ file.kind = "csv" /\ HasCol(file, "ItemKey"))
        => LET raw == WithReadColumn(ReadCsv(file)) IN
           /\ \A i \in 1..Len(raw.rows) :
                 LET same == {j \in 1..Len(raw.rows) : raw.rows[j].ItemKey = raw.rows[i].ItemKey}
                     lastj == CHOOSE j \in same : \A h \in same : h <= j
                 IN  {e \in 1..Len(last.db.rows) : last.db.rows[e].ItemKey = raw.rows[i].ItemKey}
                        = {e \in 1..Len(last.db.rows) :
                              /\ last.db.rows[e].ItemKey = raw.rows[i].ItemKey
                              /\ last.db.rows[e].Read = raw.rows[lastj].Read}
                     /\ Cardinality({e \in 1..Len(last.db.rows) :
                                        last.db.rows[e].ItemKey = raw.rows[i].ItemKey}) = 1
           /\ \A e \in 1..Len(last.db.rows) :
                 \E i \in 1..Len(raw.rows) : raw.rows[i].ItemKey = last.db.rows[e].ItemKey

C5_Witness ==
    /\ last.op = "load_read_db"
    /\ ~last.raised
    /\ file.kind = "csv"
    /\ HasCol(file, "ItemKey")
    /\ HasCol(file, "Read")
    /\ \E i, j \in 1..Len(file.rows) :
          /\ i < j
          /\ file.rows[i].ItemKey = file.rows[j].ItemKey
          /\ file.rows[i].Read # file.rows[j].Read
    /\ Len(last.db.rows) > 1

\* C6: saving the frame load_read_db() just returned leaves the result of
\* the next load_read_db() equal to it: same identifiers, same Read values.
C6_SaveLoadedRoundTrip ==
    [][(/\ last.op = "load_read_db"
        /\ ~last.raised
        /\ HasCol(last.db, "ItemKey")
        /\ last'.op = "save_read_db"
        /\ last'.key = "loaded"
        /\ ~last'.raised)
          => /\ ~load_read_db(file', writable').raised
             /\ Mapping(load_read_db(file', writable').db) = Mapping(last.db)
             /\ Len(load_read_db(file', writable').db.rows) = Len(last.db.rows)]_vars

C6_Witness ==
    /\ last.op = "save_read_db"
    /\ last.key = "loaded"
    /\ ~last.raised
    /\ file.kind = "csv"
    /\ HasCol(file, "ItemKey")
    /\ \E i, j \in 1..Len(file.rows) :
          /\ file.rows[i].ItemKey = ""
          /\ file.rows[i].Read = "False"
          /\ file.rows[j].Read = "True"

\* C7: from an absent or empty side file, whatever store functions are
\* called, the side file holds at most one record per identifier.
C7_OneRecordPerIdentifier ==
    (file.kind = "csv" /\ HasCol(file, "ItemKey"))
        => LET raw == ReadCsv(file) IN
           \A i, j \in 1..Len(raw.rows) :
              raw.rows[i].ItemKey = raw.rows[j].ItemKey => i = j

\* a side file with the store's two columns
WellFormed(f) == f.kind = "csv" /\ HasCol(f, "ItemKey") /\ HasCol(f, "Read")

\* the mapping without the entries of one identifier
Others(m, item_key) == {e \in m : e[1] # Str(item_key)}

\* C18: mark_read(id, r) on a well-formed store leaves every other
\* identifier of the store in it with the same Read value, and adds no
\* identifier but id.
C18_MarkReadChangesOnlyId ==
    [][(WellFormed(file) /\ last'.op = "mark_read" /\ ~last'.raised)
          => Others(Mapping(load_read_db(file', writable').db), last'.key)
                = Others(Mapping(load_read_db(file, writable).db), last'.key)]_vars

\* C19: whatever the side file holds, records that repeat an identifier
\* included, a load_data that returns a frame returns one item per sheet
\* row, in sheet order, so the read and unread counts add up to the number
\* of sheet rows.
C19_MergeKeepsRows ==
    (last.op = "load_data" /\ ~last.data.none)
        => LET rows == last.data.rows
               options == StatusOptions(rows)
           IN  /\ Len(rows) = Len(Articles)
               /\ \A n \in 1..Len(rows) : rows[n].row = n
               /\ options[2].count + options[3].count = Len(Articles)
               /\ options[1].count = Len(Articles)

\* load_data on a side file with two records for one sheet identifier
C19_Witness ==
    /\ last.op = "load_data"
    /\ ~last.data.none
    /\ WellFormed(file)
    /\ \E i, j \in 1..Len(file.rows) :
          /\ i < j
          /\ file.rows[i].ItemKey = file.rows[j].ItemKey
          /\ file.rows[i].ItemKey = "u1"
          /\ file.rows[i].Read # file.rows[j].Read
    /\ \E n \in 1..Len(last.data.rows) : last.data.rows[n].Read

(***************************************************************************)
(* Claims about the pagination state of a session.                         *)
(***************************************************************************)
\* the least k with k * d >= n
Ceil(n, d) == CHOOSE k \in 0..n : k * d >= n /\ \A j \in 0..n : j * d >= n => k <= j

\* C8: at the end of every render pass, after any next / previous clicks,
\* filter changes, search changes and read toggles, the page index is below
\* ceil(resultCount / 8) when there are results and is 0 when there are none.
C8_PageWithinResults ==
    /\ view.count > 0 => Get(ss.page, 0) < Ceil(view.count, 8)
    /\ view.count = 0 => Get(ss.page, 0) = 0

\* the user was on the second page when the result set shrank to one page;
\* and when it shrank to nothing
C8_Witness ==
    /\ view.page_before = 1
    /\ view.count = 0
    /\ ss.page = <<0>>

\* C9: whenever the selected categories, the status filter or the search
\* term differ from the value seen in the previous render pass, the page
\* index is 0 when the result page of the pass is computed, whatever it was.
C9_ResetOnFilterChange ==
    [][(\/ ss'.last_selected # ss.last_selected
        \/ ss'.last_status # ss.last_status
        \/ ss'.last_search # ss.last_search)
          => (ss'.page = <<0>> /\ view'.page = 0)]_vars

\* the status filter changed while the second page was shown, and the new
\* result set still has a second page
C9_Witness ==
    /\ view.page_before = 1
    /\ ss.page = <<0>>
    /\ view.page = 0
    /\ view.count > 8
    /\ ss.last_status[1].kind = "unread"
    /\ ss.search_main = <<>>

\* the page index a click on next (on previous) must leave behind
AfterNext == IF ss.page[1] < Ceil(view.count, 8) - 1 THEN <<ss.page[1] + 1>> ELSE ss.page
AfterPrevious == IF ss.page[1] > 0 THEN <<ss.page[1] - 1>> ELSE ss.page

\* C10: a click on next adds exactly 1 to the page index when it is below
\* totalPages - 1 and leaves it alone otherwise; a click on previous takes
\* exactly 1 off when it is above 0 and leaves it alone otherwise; with
\* totalPages = ceil(resultCount / 8): no navigation when there are no
\* results, and for 13 results next on page index 1 does nothing.
C10_NavigationGuards ==
    /\ view.pager =>
          /\ ENABLED (ClickNext /\ ss'.page = AfterNext)
          /\ ~ENABLED (ClickNext /\ ss'.page # AfterNext)
          /\ ENABLED (ClickPrevious /\ ss'.page = AfterPrevious)
          /\ ~ENABLED (ClickPrevious /\ ss'.page # AfterPrevious)
    /\ view.count = 0 => ~view.pager /\ ~ENABLED ClickNext /\ ~ENABLED ClickPrevious
    /\ (view.count = 13 /\ ss.page = <<1>>) => ~ENABLED (ClickNext /\ ss'.page # <<1>>)

\* 13 results, the second page shown after a click on next
C10_Witness ==
    /\ view.count = 13
    /\ view.page_before = 0
    /\ ss.page = <<1>>
    /\ view.page = 1
    /\ Len(view.rows) = 5

(***************************************************************************)
(* Claims about filtering, search and ordering of the listing.             *)
(***************************************************************************)
\* the frame load_data returns for the side file as it is now
MergedNow == load_data("ok", file, writable).data.rows

\* whether an item passes a status filter
StatusMatches(kind, read) ==
    (kind = "all") \/ (kind = "unread" /\ ~read) \/ (kind = "read" /\ read)

\* C11: with an empty search term the listing holds exactly the items whose
\* category is selected (every item when nothing is selected) and whose Read
\* flag matches the status filter; it is drawn from the unfiltered items
\* without repetition, and filtering it again gives the same listing.
C11_FilterExact ==
    (view.listing /\ ss.search_main = <<>>)
        => LET selected == ss.last_selected[1]
               status == ss.last_status[1]
               df == MergedNow
           IN  /\ Range(view.result)
                     = {df[i] : i \in {j \in 1..Len(df) :
                           /\ (selected = {} \/ Articles[df[j].row].Category \in selected)
                           /\ StatusMatches(status.kind, df[j].Read)}}
               /\ Cardinality(Range(view.result)) = Len(view.result)
               /\ Range(view.result) \subseteq Range(df)
               /\ SortValues(FilterCategoryStatus(view.result, selected, status)) = view.result

\* one of two categories selected under the read-only filter, with read and
\* unread items in the selected category
C11_Witness ==
    /\ view.listing
    /\ ss.search_main = <<>>
    /\ ss.last_selected[1] = {CatLLM}
    /\ ss.last_status[1].kind = "read"
    /\ view.count = 1
    /\ \E i \in 1..Len(MergedNow) : MergedNow[i].Read /\ Articles[MergedNow[i].row].Category = CatLLM

\* the text of a Subtitle cell with a missing value taken as the empty text
SubtitleOrEmpty(v) == IF v.isna THEN <<>> ELSE v.txt

\* C12: with a non-empty search term an item of the filtered set is kept
\* exactly when the term is a case-insensitive substring of its title or of
\* its subtitle, a missing subtitle counting as the empty text.
C12_SearchExact ==
    (view.listing /\ ss.search_main # <<>>)
        => LET term == ss.search_main
               filtered == FilterCategoryStatus(MergedNow, ss.last_selected[1], ss.last_status[1])
           IN  Range(view.result)
                  = {filtered[i] : i \in {j \in 1..Len(filtered) :
                        \/ Contains(Articles[filtered[j].row].Title, term)
                        \/ Contains(SubtitleOrEmpty(Articles[filtered[j].row].Subtitle), term)}}

\* C15: a read / unread toggle (the only step that writes the side file in
\* a session) made while categories, status filter and search term stay as
\* they are leaves the status filter alone and leaves the page index where
\* it was, clamped to the new result count; it does not reset it to 0.
C15_ToggleKeepsPage ==
    [][(file' # file)
          => /\ ss'.last_status[1].kind = ss.last_status[1].kind
             /\ ss'.page = <<Min(ss.page[1], Max(Ceil(view'.count, 8) - 1, 0))>>]_vars

\* whether the first sheet row must come before the second in the listing:
\* it has the later date, or it has a date and the other has none
MustPrecede(a, b) ==
    /\ ~Articles[a].Date.isna
    /\ (Articles[b].Date.isna \/ Articles[a].Date.day > Articles[b].Date.day)

\* C16: with or without a search term, the listed results are in date
\* order, latest first, every item without a date after every dated item;
\* the page shown is the slice of 8 of that order at the page index, and
\* the pages 0..totalPages-1 hold every result exactly once.
C16_DateDescending ==
    view.listing
        => /\ \A i, j \in 1..Len(view.result) :
                 MustPrecede(view.result[i].row, view.result[j].row) => i < j
           /\ view.count > 0 =>
                 /\ view.rows = SubSeq(view.result, view.page * 8 + 1,
                                       Min(view.page * 8 + 8, view.count))
                 /\ view.page \in 0..(view.total_pages - 1)
                 /\ \A n \in 1..view.count :
                        Cardinality({q \in 0..(view.total_pages - 1) :
                                        n \in (q * 8 + 1)..(q * 8 + 8)}) = 1

\* the second page of a search result, items without a date at its end
C16_Witness ==
    /\ view.listing
    /\ ss.search_main # <<>>
    /\ view.page = 1
    /\ view.count > 8
    /\ Articles[view.rows[Len(view.rows)].row].Date.isna
    /\ ~Articles[view.result[8].row].Date.isna

\* the category checkboxes whose value a step changed
ChangedBoxes == {c \in DOMAIN ss.chk : ss'.chk[c] # ss.chk[c]}

\* C17: a step that toggles one group's select-all sets every category of
\* that group present in the data to the new value and leaves the other
\* group's categories as they were; a step that toggles neither select-all
\* changes no category selection but the one checkbox the user clicked.
C17_SelectAllScoped ==
    [][/\ (ss'.ai_all # ss.ai_all)
            => /\ \A c \in ai_present : ss'.chk[c] = ss'.ai_all
               /\ \A c \in non_ai_present : ss'.chk[c] = ss.chk[c]
       /\ (ss'.nonai_all # ss.nonai_all)
            => /\ \A c \in non_ai_present : ss'.chk[c] = ss'.nonai_all
               /\ \A c \in ai_present : ss'.chk[c] = ss.chk[c]
       /\ (ss'.ai_all = ss.ai_all /\ ss'.nonai_all = ss.nonai_all)
            => /\ Cardinality(ChangedBoxes) <= 1
               /\ ChangedBoxes # {} => ToggleCategory]_vars

\* the AI select-all is on, the AI categories of the data are all ticked,
\* the non-AI category is not
C17_Witness ==
    /\ view.listing
    /\ ss.ai_all
    /\ ss.ai_all_prev
    /\ ~ss.nonai_all
    /\ \A c \in ai_present : ss.chk[c]
    /\ \A c \in non_ai_present : ~ss.chk[c]
    /\ ss.last_selected = <<ai_present>>

(***************************************************************************)
(* Claims about two sessions on one side file.                             *)
(***************************************************************************)
\* C13: a load_read_db running while another session saves finds the whole
\* old store or the whole new store: its read of the file never raises, so
\* it never takes the store for corrupt and never resets it to empty.
C13_SaveLooksAtomic ==
    last.op = "load_read_db" => ~last.raised

\* C14: when two sessions have run mark_read side by side and both are
\* done, the side file is exactly what the later save wrote.
C14_LaterSaveWins ==
    (view.saved /\ \A p \in Sessions : ss[p].pc = "idle") => file = view.text

====
